---- MODULE Spec2Model ----
(***************************************************************************)
(* Model of the data-access layer of the Sales & Inventory dashboard       *)
(* (src/database.py) and of the way src/app.py drives it.                  *)
(*                                                                         *)
(* The SQLite file is the record `db`:                                     *)
(*   tables            the tables that exist ("products", "transactions")  *)
(*   products          id -> row of table products                         *)
(*   transactions      id -> row of table transactions                     *)
(*   seq_products      sqlite_sequence entry of products (AUTOINCREMENT)   *)
(*   seq_transactions  sqlite_sequence entry of transactions               *)
(* Every function of database.py is an operator from a store (and the      *)
(* call's arguments) to the record [db, ret, raised]: the store it leaves   *)
(* committed, the value it returns and whether it raised instead.          *)
(*                                                                         *)
(* Money is counted in thousands of rupiah (every amount of the demo       *)
(* catalogue is a multiple of 1000), time in minutes of wall clock.        *)
(***************************************************************************)
EXTENDS Integers, Sequences, FiniteSets, TLC

VARIABLES
    db,         \* the committed content of inventory.db
    now,        \* the local wall clock, datetime.now(), in minutes
    tz,         \* local time minus UTC, in minutes (CURRENT_TIMESTAMP is UTC)
    op,         \* the last call made on the module: the function's name,
    args,       \*   its arguments,
    ret,        \*   the value it returned,
    raised,     \*   and whether it raised instead of returning
    nops,       \* number of mutating calls made so far
    cl,         \* statement-level clients: position and locals of each call
    ledger,     \* per product: initial stock + committed restocks - committed sales
    seedRuns    \* number of times initialize_database returned True

\* op comes first: two states that differ in the call made differ there
vars == <<op, nops, args, ret, raised, db, now, tz, cl, ledger, seedRuns>>

-----------------------------------------------------------------------------
(* Bounds of the model *)

MaxOps == 3          \* mutating calls per behaviour
MaxDays == 1         \* days the clock may advance

(* Program constants *)

MinutesPerDay == 1440
StartNow == 20 * MinutesPerDay + 600   \* day 20, 10:00 local time

None == <<>>                 \* Python's None for an optional argument
Some(x) == <<x>>
OrElse(opt, old) == IF opt = None THEN old ELSE opt[1]

Range(f) == {f[x] : x \in DOMAIN f}

Restrict(f, S) == [x \in S |-> f[x]]

EmptyMap == [x \in {} |-> 0]

-----------------------------------------------------------------------------
(* The store *)

EmptyDb ==
    [tables |-> {}, products |-> EmptyMap, transactions |-> EmptyMap,
     seq_products |-> 0, seq_transactions |-> 0]

Ret(d, r) == [db |-> d, ret |-> r, raised |-> FALSE]

\* sqlite3.OperationalError ("no such table"): nothing is committed
Raise(d, r) == [db |-> d, ret |-> r, raised |-> TRUE]

HasTables(d) == {"products", "transactions"} \subseteq d.tables

\* CURRENT_TIMESTAMP: the UTC time of the local instant t
utc(t) == t - tz

\* create_tables written as DROP TABLE + CREATE TABLE
create_tables_afresh(d) ==
    Ret([EmptyDb EXCEPT !.tables = {"products", "transactions"}], TRUE)

create_tables(d) ==
    Ret([d EXCEPT !.tables = @ \cup {"products", "transactions"}], TRUE)

\* add_product on a table whose id is a plain INTEGER PRIMARY KEY, without
\* AUTOINCREMENT: the new rowid is one more than the largest one present
add_product_max_rowid(d, t, name, category, price, cost, stock) ==
    IF "products" \notin d.tables THEN Raise(d, 0)
    ELSE LET id == IF DOMAIN d.products = {} THEN 1
                   ELSE 1 + CHOOSE i \in DOMAIN d.products :
                                \A j \in DOMAIN d.products : j <= i
             row == [id |-> id, name |-> name, category |-> category,
                     price |-> price, cost |-> cost, stock |-> stock,
                     created_at |-> utc(t)]
         IN Ret([d EXCEPT !.products = (id :> row) @@ @,
                          !.seq_products = id], id)

add_product(d, t, name, category, price, cost, stock) ==
    IF "products" \notin d.tables THEN Raise(d, 0)
    ELSE LET id == d.seq_products + 1
             row == [id |-> id, name |-> name, category |-> category,
                     price |-> price, cost |-> cost, stock |-> stock,
                     created_at |-> utc(t)]
         IN Ret([d EXCEPT !.products = (id :> row) @@ @,
                          !.seq_products = id], id)

get_products(d) ==
    IF "products" \notin d.tables THEN Raise(d, <<>>)
    ELSE Ret(d, d.products)

\* update_stock without its "stok mencukupi" validation
update_stock_unvalidated(d, product_id, quantity_sold) ==
    IF product_id \notin DOMAIN d.products THEN Ret(d, FALSE)
    ELSE Ret([d EXCEPT !.products[product_id].stock = @ - quantity_sold], TRUE)

\* update_stock comparing with <= : the whole stock cannot be sold
update_stock_strict(d, product_id, quantity_sold) ==
    IF product_id \notin DOMAIN d.products THEN Ret(d, FALSE)
    ELSE LET current_stock == d.products[product_id].stock IN
         IF current_stock <= quantity_sold THEN Ret(d, FALSE)
         ELSE Ret([d EXCEPT !.products[product_id].stock =
                                current_stock - quantity_sold], TRUE)

update_stock(d, product_id, quantity_sold) ==
    IF "products" \notin d.tables THEN Raise(d, FALSE)
    ELSE IF product_id \notin DOMAIN d.products THEN Ret(d, FALSE)
    ELSE LET current_stock == d.products[product_id].stock IN
         IF current_stock < quantity_sold THEN Ret(d, FALSE)
         ELSE Ret([d EXCEPT !.products[product_id].stock =
                                current_stock - quantity_sold], TRUE)

get_product_by_id(d, product_id) ==
    IF "products" \notin d.tables THEN Raise(d, None)
    ELSE IF product_id \in DOMAIN d.products
         THEN Ret(d, Some(d.products[product_id]))
         ELSE Ret(d, None)

\* restock_product writing the delivered quantity over the stock
restock_product_overwriting(d, product_id, quantity_to_add) ==
    IF product_id \notin DOMAIN d.products THEN Ret(d, FALSE)
    ELSE Ret([d EXCEPT !.products[product_id].stock = quantity_to_add], TRUE)

restock_product(d, product_id, quantity_to_add) ==
    IF "products" \notin d.tables THEN Raise(d, FALSE)
    ELSE IF product_id \notin DOMAIN d.products THEN Ret(d, FALSE)
    ELSE LET current_stock == d.products[product_id].stock IN
         Ret([d EXCEPT !.products[product_id].stock =
                           current_stock + quantity_to_add], TRUE)

\* update_product that also re-prices the product's recorded sales
update_product_repricing(d, product_id, name, category, price, cost, stock) ==
    IF product_id \notin DOMAIN d.products THEN Ret(d, FALSE)
    ELSE LET product == d.products[product_id]
             new_price == OrElse(price, product.price)
             new_cost == OrElse(cost, product.cost)
             txs == d.transactions
         IN Ret([d EXCEPT
                   !.products[product_id] =
                       [product EXCEPT
                          !.name = OrElse(name, product.name),
                          !.category = OrElse(category, product.category),
                          !.price = new_price, !.cost = new_cost,
                          !.stock = OrElse(stock, product.stock)],
                   !.transactions =
                       [i \in DOMAIN txs |->
                          IF txs[i].product_id # product_id THEN txs[i]
                          ELSE [txs[i] EXCEPT
                                  !.total_price = new_price * txs[i].quantity,
                                  !.profit = (new_price - new_cost)
                                                 * txs[i].quantity]]], TRUE)

\* update_product written with "name or product['name']": a supplied falsy
\* value (0, the empty string) is read as "not supplied"
update_product_truthy(d, product_id, name, category, price, cost, stock) ==
    IF product_id \notin DOMAIN d.products THEN Ret(d, FALSE)
    ELSE LET OrElseTruthy(opt, old) ==
                 IF opt = None \/ opt = Some(0) \/ opt = Some("")
                 THEN old ELSE opt[1]
             product == d.products[product_id]
             row == [product EXCEPT
                        !.name = OrElseTruthy(name, product.name),
                        !.category = OrElseTruthy(category, product.category),
                        !.price = OrElseTruthy(price, product.price),
                        !.cost = OrElseTruthy(cost, product.cost),
                        !.stock = OrElseTruthy(stock, product.stock)]
         IN Ret([d EXCEPT !.products[product_id] = row], TRUE)

update_product(d, product_id, name, category, price, cost, stock) ==
    LET got == get_product_by_id(d, product_id) IN
    IF got.raised THEN Raise(d, FALSE)
    ELSE IF got.ret = None THEN Ret(d, FALSE)
    ELSE LET product == got.ret[1]
             row == [product EXCEPT
                        !.name = OrElse(name, product.name),
                        !.category = OrElse(category, product.category),
                        !.price = OrElse(price, product.price),
                        !.cost = OrElse(cost, product.cost),
                        !.stock = OrElse(stock, product.stock)]
         IN Ret([d EXCEPT !.products[product_id] = row], TRUE)

\* DELETE FROM transactions, its WHERE clause forgotten
delete_transactions_all(txs, product_id) == EmptyMap

\* DELETE FROM transactions WHERE product_id = ?
delete_transactions_of(txs, product_id) ==
    Restrict(txs, {i \in DOMAIN txs : txs[i].product_id # product_id})

\* delete_product without its "cek apakah produk ada": the two DELETE statements
\* run whether or not the product exists
delete_product_unguarded(d, product_id) ==
    IF ~HasTables(d) THEN Raise(d, FALSE)
    ELSE Ret([d EXCEPT
                !.transactions = delete_transactions_of(@, product_id),
                !.products = Restrict(@, DOMAIN @ \ {product_id})], TRUE)

\* delete_product without the delete of the product's transactions
delete_product_only(d, product_id) ==
    IF product_id \notin DOMAIN d.products THEN Ret(d, FALSE)
    ELSE Ret([d EXCEPT !.products = Restrict(@, DOMAIN @ \ {product_id})], TRUE)

delete_product(d, product_id) ==
    IF "products" \notin d.tables THEN Raise(d, FALSE)
    ELSE IF product_id \notin DOMAIN d.products THEN Ret(d, FALSE)
    ELSE IF "transactions" \notin d.tables THEN Raise(d, FALSE)
    ELSE Ret([d EXCEPT
                !.transactions = delete_transactions_of(@, product_id),
                !.products = Restrict(@, DOMAIN @ \ {product_id})], TRUE)

\* INSERT INTO transactions: the row gets the next AUTOINCREMENT id; the
\* declared FOREIGN KEY is not enforced (no PRAGMA foreign_keys on the connection)
insert_transaction(d, product_id, quantity, total_price, profit, date) ==
    IF "transactions" \notin d.tables THEN Raise(d, 0)
    ELSE LET id == d.seq_transactions + 1
             row == [id |-> id, product_id |-> product_id,
                     quantity |-> quantity, total_price |-> total_price,
                     profit |-> profit, transaction_date |-> date]
         IN Ret([d EXCEPT !.transactions = (id :> row) @@ @,
                          !.seq_transactions = id], id)

add_transaction(d, t, product_id, quantity, total_price, profit) ==
    insert_transaction(d, product_id, quantity, total_price, profit, utc(t))

add_transaction_with_date(d, product_id, quantity, total_price, profit, date) ==
    insert_transaction(d, product_id, quantity, total_price, profit, date)

\* is_database_empty that creates the tables it does not find
is_database_empty_creating(d) ==
    IF "products" \notin d.tables THEN Ret(create_tables(d).db, TRUE)
    ELSE Ret(d, Cardinality(DOMAIN d.products) = 0)

is_database_empty(d) ==
    IF "products" \notin d.tables THEN Raise(d, FALSE)
    ELSE Ret(d, Cardinality(DOMAIN d.products) = 0)

-----------------------------------------------------------------------------
(* Reads *)

\* ORDER BY t.transaction_date DESC (rows of equal date in rowid order)
RECURSIVE OrderByDateDesc(_)
OrderByDateDesc(rows) ==
    IF rows = {} THEN <<>>
    ELSE LET top == CHOOSE r \in rows : \A s \in rows :
                        \/ r.transaction_date > s.transaction_date
                        \/ /\ r.transaction_date = s.transaction_date
                           /\ r.id <= s.id
         IN <<top>> \o OrderByDateDesc(rows \ {top})

\* One row of "transactions t JOIN products p ON t.product_id = p.id"
JoinedRow(d, i) ==
    LET t == d.transactions[i] IN
    [id |-> t.id, product_id |-> t.product_id,
     product_name |-> d.products[t.product_id].name,
     quantity |-> t.quantity, total_price |-> t.total_price,
     profit |-> t.profit, transaction_date |-> t.transaction_date]

get_transactions(d, t, days) ==
    IF ~HasTables(d) THEN Raise(d, <<>>)
    ELSE LET start_date == t - days * MinutesPerDay
             rows == {JoinedRow(d, i) : i \in
                        {j \in DOMAIN d.transactions :
                            /\ d.transactions[j].product_id \in DOMAIN d.products
                            /\ d.transactions[j].transaction_date >= start_date}}
         IN Ret(d, OrderByDateDesc(rows))

\* SUM(quantity) over the transaction rows `rows` of the store d
RECURSIVE SumQuantity(_, _)
SumQuantity(d, rows) ==
    IF rows = {} THEN 0
    ELSE LET i == CHOOSE j \in rows : TRUE
         IN d.transactions[i].quantity + SumQuantity(d, rows \ {i})

\* DATE(x): the calendar date of a timestamp, as a day number
Day(x) == x \div MinutesPerDay

\* SUM(total_price) and SUM(profit) over the transaction rows `rows`
RECURSIVE SumTotalPrice(_, _)
SumTotalPrice(d, rows) ==
    IF rows = {} THEN 0
    ELSE LET i == CHOOSE j \in rows : TRUE
         IN d.transactions[i].total_price + SumTotalPrice(d, rows \ {i})

RECURSIVE SumProfit(_, _)
SumProfit(d, rows) ==
    IF rows = {} THEN 0
    ELSE LET i == CHOOSE j \in rows : TRUE
         IN d.transactions[i].profit + SumProfit(d, rows \ {i})

\* ORDER BY date
RECURSIVE OrderByDate(_)
OrderByDate(rows) ==
    IF rows = {} THEN <<>>
    ELSE LET first == CHOOSE r \in rows : \A o \in rows : r.date <= o.date
         IN <<first>> \o OrderByDate(rows \ {first})

\* get_daily_sales with its WHERE clause left out
get_daily_sales_unfiltered(d, t, days) ==
    IF "transactions" \notin d.tables THEN Raise(d, <<>>)
    ELSE LET on(date) == {i \in DOMAIN d.transactions :
                            Day(d.transactions[i].transaction_date) = date}
         IN Ret(d, OrderByDate(
                 {[date |-> date,
                   total_sales |-> SumTotalPrice(d, on(date)),
                   total_profit |-> SumProfit(d, on(date)),
                   total_items |-> SumQuantity(d, on(date))] :
                  date \in {Day(d.transactions[i].transaction_date) :
                               i \in DOMAIN d.transactions}}))

get_daily_sales(d, t, days) ==
    IF "transactions" \notin d.tables THEN Raise(d, <<>>)
    ELSE LET start_date == t - days * MinutesPerDay
             since == {i \in DOMAIN d.transactions :
                          d.transactions[i].transaction_date >= start_date}
             on(date) == {i \in since :
                            Day(d.transactions[i].transaction_date) = date}
         IN Ret(d, OrderByDate(
                 {[date |-> date,
                   total_sales |-> SumTotalPrice(d, on(date)),
                   total_profit |-> SumProfit(d, on(date)),
                   total_items |-> SumQuantity(d, on(date))] :
                  date \in {Day(d.transactions[i].transaction_date) :
                               i \in since}}))

\* get_today_summary; DATE('now') is the UTC date
get_today_summary(d, t) ==
    IF "transactions" \notin d.tables
    THEN Raise(d, [total_sales |-> 0, total_profit |-> 0, total_items |-> 0])
    ELSE LET today == {i \in DOMAIN d.transactions :
                          Day(d.transactions[i].transaction_date) = Day(utc(t))}
         IN Ret(d, [total_sales |-> SumTotalPrice(d, today),
                    total_profit |-> SumProfit(d, today),
                    total_items |-> SumQuantity(d, today)])

\* get_categories: the distinct categories (the order of the list left out)
get_categories(d) ==
    IF "products" \notin d.tables THEN Raise(d, {})
    ELSE Ret(d, {d.products[id].category : id \in DOMAIN d.products})

\* timedelta(days=3), the factor 1.2 in tenths, and the factor 2 of the status
PredictionDays == 3
DemandTenths == 12
StatusFactor == 2

\* astype(int) applied without round(0)
RoundDown(n, d) == n \div d

\* round(0): n / d rounded to the nearest integer, a tie to the even one
\* (numpy's rint on the double; for fewer than 12 rows the double product
\* avg * 1.2 rounds as the exact one does)
RoundHalfEven(n, d) ==
    LET floor == n \div d
        rest == n - floor * d
    IN IF 2 * rest < d THEN floor
       ELSE IF 2 * rest > d THEN floor + 1
       ELSE IF floor % 2 = 0 THEN floor ELSE floor + 1

\* The lambda of df.apply, written with <=
stock_status_inclusive(current_stock, predicted_demand) ==
    IF current_stock <= predicted_demand * StatusFactor
    THEN "Perlu Restock" ELSE "Aman"

\* The lambda of df.apply (the labels without their emoji)
stock_status(current_stock, predicted_demand) ==
    IF current_stock < predicted_demand * StatusFactor
    THEN "Perlu Restock" ELSE "Aman"

\* ORDER BY avg_daily_sales DESC (equal averages in product id order); an
\* average is the pair <<SUM(quantity), COUNT(quantity)>>
RECURSIVE OrderByAvgDesc(_)
OrderByAvgDesc(recs) ==
    IF recs = {} THEN <<>>
    ELSE LET top == CHOOSE r \in recs : \A o \in recs :
                        LET a == r.avg_daily_sales
                            b == o.avg_daily_sales
                        IN \/ a[1] * b[2] > b[1] * a[2]
                           \/ /\ a[1] * b[2] = b[1] * a[2]
                              /\ r.product_id <= o.product_id
         IN <<top>> \o OrderByAvgDesc(recs \ {top})

\* The rows "LEFT JOIN transactions t ON p.id = t.product_id AND
\* t.transaction_date >= ?" joins to the product
JoinedSince(d, product_id, start_date) ==
    {i \in DOMAIN d.transactions :
        /\ d.transactions[i].product_id = product_id
        /\ d.transactions[i].transaction_date >= start_date}

\* One group of the query with the two columns pandas adds
PredictionRecord(d, product_id, rows) ==
    LET avg == IF rows = {} THEN <<0, 1>>
               ELSE <<SumQuantity(d, rows), Cardinality(rows)>>
        demand == RoundHalfEven(DemandTenths * avg[1], 10 * avg[2])
    IN [product_id |-> product_id,
        product_name |-> d.products[product_id].name,
        current_stock |-> d.products[product_id].stock,
        total_sold_3days |-> SumQuantity(d, rows),
        avg_daily_sales |-> avg,
        predicted_demand |-> demand,
        stock_status |-> stock_status(d.products[product_id].stock, demand)]

\* get_sales_prediction with JOIN in place of LEFT JOIN
get_sales_prediction_inner_join(d, t) ==
    LET start_date == t - PredictionDays * MinutesPerDay
        sold == {id \in DOMAIN d.products : JoinedSince(d, id, start_date) # {}}
    IN Ret(d, OrderByAvgDesc(
                {PredictionRecord(d, id, JoinedSince(d, id, start_date)) :
                    id \in sold}))

get_sales_prediction(d, t) ==
    IF ~HasTables(d) THEN Raise(d, <<>>)
    ELSE LET start_date == t - PredictionDays * MinutesPerDay IN
         Ret(d, OrderByAvgDesc(
                  {PredictionRecord(d, id, JoinedSince(d, id, start_date)) :
                      id \in DOMAIN d.products}))

-----------------------------------------------------------------------------
(* Demo data *)

\* products_data, in thousands of rupiah
products_data ==
    << <<"Laptop Asus ROG", "Elektronik", 15000, 13000, 15>>,
       <<"iPhone 15 Pro", "Elektronik", 20000, 17500, 10>>,
       <<"Mouse Logitech G502", "Aksesoris", 850, 650, 50>>,
       <<"Keyboard Mechanical RGB", "Aksesoris", 750, 500, 40>>,
       <<"Monitor Samsung 27 inch", "Elektronik", 3500, 2800, 20>>,
       <<"Headphone Sony WH-1000XM5", "Aksesoris", 4500, 3500, 25>>,
       <<"SSD Samsung 1TB", "Komponen", 1500, 1100, 35>>,
       <<"RAM DDR5 32GB", "Komponen", 2000, 1500, 30>>,
       <<"Webcam Logitech C920", "Aksesoris", 1200, 900, 45>>,
       <<"Printer Epson L3250", "Elektronik", 3200, 2600, 15>> >>

SeedTransactionLimit == 50
SeedOldestDay == 7

\* The i-th draw of the pseudo-random source seeded with `seed`; a seed of
\* 1000 + r is the source whose every draw is r
Rand(seed, i) ==
    IF seed >= 1000 THEN seed - 1000
    ELSE (seed * (i * i + 3 * i + 1) + (seed \div 2) * i) % 997

\* random.randint(a, b) and random.choice(seq) on draw r
randint(a, b, r) == a + (r % (b - a + 1))
choice(seq, r) == seq[1 + (r % Len(seq))]

Min(a, b) == IF a < b THEN a ELSE b

\* The loop "for product in products_data: add_product(...)"; s = [db, ids]
RECURSIVE SeedProducts(_, _, _)
SeedProducts(s, t, k) ==
    IF k > Len(products_data) THEN s
    ELSE LET p == products_data[k]
             r == add_product(s.db, t, p[1], p[2], p[3], p[4], p[5])
         IN SeedProducts([db |-> r.db, ids |-> Append(s.ids, r.ret)], t, k + 1)

\* The inner loop body without its update_stock call
SeedOne_stock_untouched(s, seed, t, day_offset, product_ids) ==
    LET product_id == choice(product_ids, Rand(seed, s.draw))
        product == s.db.products[product_id]
        quantity == randint(1, Min(3, product.stock), Rand(seed, s.draw + 1))
        transaction_date ==
            t - (day_offset * MinutesPerDay
                   + randint(8, 20, Rand(seed, s.draw + 2)) * 60
                   + randint(0, 59, Rand(seed, s.draw + 3)))
    IN [db |-> add_transaction_with_date(s.db, product_id, quantity,
                   product.price * quantity,
                   (product.price - product.cost) * quantity,
                   transaction_date).db,
        count |-> s.count + 1, draw |-> s.draw + 4]

\* One pass of the inner loop body; s = [db, count, draw]
SeedOne(s, seed, t, day_offset, product_ids) ==
    LET product_id == choice(product_ids, Rand(seed, s.draw))
        got == get_product_by_id(s.db, product_id)
    IN IF got.ret = None \/ got.ret[1].stock <= 0
       THEN [s EXCEPT !.draw = @ + 1]
       ELSE LET product == got.ret[1]
                quantity == randint(1, Min(3, product.stock),
                                    Rand(seed, s.draw + 1))
                total_price == product.price * quantity
                profit == (product.price - product.cost) * quantity
                hours == randint(8, 20, Rand(seed, s.draw + 2))
                minutes == randint(0, 59, Rand(seed, s.draw + 3))
                transaction_date ==
                    t - (day_offset * MinutesPerDay + hours * 60 + minutes)
                d1 == add_transaction_with_date(s.db, product_id, quantity,
                          total_price, profit, transaction_date).db
                d2 == update_stock(d1, product_id, quantity).db
            IN [db |-> d2, count |-> s.count + 1, draw |-> s.draw + 4]

\* "for _ in range(daily_transactions)", left passes to go, with its break
RECURSIVE SeedDay(_, _, _, _, _, _)
SeedDay(s, seed, t, day_offset, product_ids, left) ==
    IF left = 0 THEN s
    ELSE LET s1 == SeedOne(s, seed, t, day_offset, product_ids) IN
         IF s1.count > s.count /\ s1.count >= SeedTransactionLimit THEN s1
         ELSE SeedDay(s1, seed, t, day_offset, product_ids, left - 1)

\* The loop over the days without its own break: the break at 50 transactions
\* leaves the inner loop only
RECURSIVE SeedDays_unbroken(_, _, _, _, _)
SeedDays_unbroken(s, seed, t, day_offset, product_ids) ==
    IF day_offset < 0 THEN s
    ELSE LET daily_transactions == randint(5, 10, Rand(seed, s.draw))
             s1 == SeedDay([s EXCEPT !.draw = @ + 1], seed, t, day_offset,
                           product_ids, daily_transactions)
         IN SeedDays_unbroken(s1, seed, t, day_offset - 1, product_ids)

\* "for day_offset in range(7, -1, -1)", with its break
RECURSIVE SeedDays(_, _, _, _, _)
SeedDays(s, seed, t, day_offset, product_ids) ==
    IF day_offset < 0 THEN s
    ELSE LET daily_transactions == randint(5, 10, Rand(seed, s.draw))
             s1 == SeedDay([s EXCEPT !.draw = @ + 1], seed, t, day_offset,
                           product_ids, daily_transactions)
         IN IF s1.count >= SeedTransactionLimit THEN s1
            ELSE SeedDays(s1, seed, t, day_offset - 1, product_ids)

generate_dummy_data(d, t, seed) ==
    LET sp == SeedProducts([db |-> d, ids |-> <<>>], t, 1)
        st == SeedDays([db |-> sp.db, count |-> 0, draw |-> 0], seed, t,
                       SeedOldestDay, sp.ids)
    IN Ret(st.db, TRUE)

\* initialize_database without its is_database_empty() test
initialize_database_unguarded(d, t, seed) ==
    Ret(generate_dummy_data(create_tables(d).db, t, seed).db, TRUE)

initialize_database(d, t, seed) ==
    LET d1 == create_tables(d).db IN
    IF is_database_empty(d1).ret
    THEN Ret(generate_dummy_data(d1, t, seed).db, TRUE)
    ELSE Ret(d1, FALSE)

-----------------------------------------------------------------------------
(* Arguments the callers pass *)

NumSeeds == 3        \* pseudo-random sources tried by the seeding

ProductIds == {1, 2}                  \* ids a call may name
Seeds == 0..(NumSeeds - 1)
TzOffsets == {0, 420}                 \* UTC, and UTC+7 (WIB)

ProductInputs ==
    { [name |-> "Pen", category |-> "Office", price |-> 10, cost |-> 6,
       stock |-> 5],
      [name |-> "Ink", category |-> "Office", price |-> 40, cost |-> 25,
       stock |-> 0] }

SaleQuantities == {-1, 1, 5}
RestockQuantities == {0, 2}

\* keyword arguments of update_product: name, category, price, cost, stock
ProductPatches ==
    { <<None, None, Some(12), None, None>>,
      <<None, None, None, Some(7), None>>,
      <<Some(""), Some("School"), None, None, None>>,
      <<None, None, None, None, Some(0)>> }

\* quantity, total_price, profit of a recorded sale
TransactionInputs == { <<1, 1000, 200>>, <<2, 20, 8>> }

WindowDays == {0, 1, 7}

-----------------------------------------------------------------------------
(* Calls made one at a time: each action is one whole call *)

NoClients == <<>>

Done(name, a, r) ==
    /\ db' = r.db
    /\ op' = name
    /\ args' = a
    /\ ret' = r.ret
    /\ raised' = r.raised

Init ==
    /\ db = EmptyDb
    /\ now = StartNow
    /\ tz \in TzOffsets
    /\ op = "start"
    /\ args = <<>>
    /\ ret = TRUE
    /\ raised = FALSE
    /\ nops = 0
    /\ cl = NoClients
    /\ ledger = EmptyMap
    /\ seedRuns = 0

CreateTables ==
    /\ Done("create_tables", <<>>, create_tables(db))
    /\ UNCHANGED <<now, tz, nops, cl, ledger, seedRuns>>

AddProduct(p) ==
    /\ nops < MaxOps
    /\ Done("add_product", <<p>>,
            add_product(db, now, p.name, p.category, p.price, p.cost, p.stock))
    /\ nops' = nops + 1
    /\ UNCHANGED <<now, tz, cl, ledger, seedRuns>>

UpdateStock(id, q) ==
    /\ nops < MaxOps
    /\ Done("update_stock", <<id, q>>, update_stock(db, id, q))
    /\ nops' = nops + 1
    /\ UNCHANGED <<now, tz, cl, ledger, seedRuns>>

RestockProduct(id, q) ==
    /\ nops < MaxOps
    /\ Done("restock_product", <<id, q>>, restock_product(db, id, q))
    /\ nops' = nops + 1
    /\ UNCHANGED <<now, tz, cl, ledger, seedRuns>>

UpdateProduct(id, patch) ==
    /\ nops < MaxOps
    /\ Done("update_product", <<id, patch>>,
            update_product(db, id, patch[1], patch[2], patch[3], patch[4],
                           patch[5]))
    /\ nops' = nops + 1
    /\ UNCHANGED <<now, tz, cl, ledger, seedRuns>>

DeleteProduct(id) ==
    /\ nops < MaxOps
    /\ Done("delete_product", <<id>>, delete_product(db, id))
    /\ nops' = nops + 1
    /\ UNCHANGED <<now, tz, cl, ledger, seedRuns>>

AddTransaction(id, x) ==
    /\ nops < MaxOps
    /\ Done("add_transaction", <<id, x>>,
            add_transaction(db, now, id, x[1], x[2], x[3]))
    /\ nops' = nops + 1
    /\ UNCHANGED <<now, tz, cl, ledger, seedRuns>>

GetTransactions(days) ==
    /\ Done("get_transactions", <<days>>, get_transactions(db, now, days))
    /\ UNCHANGED <<now, tz, nops, cl, ledger, seedRuns>>

\* A day passes between two calls
Tick ==
    /\ now + MinutesPerDay <= StartNow + MaxDays * MinutesPerDay
    /\ now' = now + MinutesPerDay
    /\ UNCHANGED <<db, tz, op, args, ret, raised, nops, cl, ledger, seedRuns>>

Next ==
    \/ CreateTables
    \/ \E p \in ProductInputs : AddProduct(p)
    \/ \E id \in ProductIds, q \in SaleQuantities : UpdateStock(id, q)
    \/ \E id \in ProductIds, q \in RestockQuantities : RestockProduct(id, q)
    \/ \E id \in ProductIds, patch \in ProductPatches : UpdateProduct(id, patch)
    \/ \E id \in ProductIds : DeleteProduct(id)
    \/ \E id \in ProductIds, x \in TransactionInputs : AddTransaction(id, x)
    \/ \E days \in WindowDays : GetTransactions(days)
    \/ Tick

Spec == Init /\ [][Next]_vars

\* The same calls, given also the values a caller is not supposed to pass
InvalidQuantities == {-6, -1}
InvalidTransactionInputs == { <<0, 0, 0>>, <<-1, -10, -4>> }

UnvalidatedNext ==
    \/ Next
    \/ \E id \in ProductIds, q \in InvalidQuantities : UpdateStock(id, q)
    \/ \E id \in ProductIds, q \in InvalidQuantities : RestockProduct(id, q)
    \/ \E id \in ProductIds, x \in InvalidTransactionInputs :
          AddTransaction(id, x)

UnvalidatedSpec == Init /\ [][UnvalidatedNext]_vars

-----------------------------------------------------------------------------
(* The dashboard: every script run of app.py starts with main() calling
   initialize_database(); the form the operator submitted, if any, then makes
   its calls and asks for a re-run. *)

MaxSeedRuns == 2     \* times the demo data may be generated
MaxFormOps == 2      \* forms submitted per behaviour, the delete button aside

FormSeeds == {1, 2}
FormSaleQuantities == {1, 2}
FormRestockQuantities == {10}

\* The products a form's selectbox lists first: the k lowest ids
RECURSIVE FirstListed(_, _)
FirstListed(ids, k) ==
    IF k = 0 \/ ids = {} THEN {}
    ELSE LET first == CHOOSE i \in ids : \A j \in ids : i <= j
         IN {first} \cup FirstListed(ids \ {first}, k - 1)

\* main(): is_first_run = db.initialize_database()
Main(seed) ==
    LET r == initialize_database(db, now, seed) IN
    /\ r.ret => seedRuns < MaxSeedRuns
    /\ Done("initialize_database", <<>>, r)
    /\ seedRuns' = IF r.ret THEN seedRuns + 1 ELSE seedRuns
    /\ UNCHANGED <<now, tz, nops, cl, ledger>>

\* render_sidebar(): the submitted sale form
SidebarSale(id, quantity) ==
    /\ op = "initialize_database"
    /\ nops < MaxFormOps
    /\ quantity <= db.products[id].stock
    /\ LET current_product == get_product_by_id(db, id).ret[1] IN
       IF current_product.stock < quantity
       THEN Done("sale_form", <<id, quantity>>, Ret(db, FALSE))
       ELSE LET final_total == current_product.price * quantity
                final_profit == (current_product.price - current_product.cost)
                                    * quantity
                d1 == add_transaction(db, now, id, quantity, final_total,
                                      final_profit).db
                d2 == update_stock(d1, id, quantity).db
            IN Done("sale_form", <<id, quantity>>, Ret(d2, TRUE))
    /\ nops' = nops + 1
    /\ UNCHANGED <<now, tz, cl, ledger, seedRuns>>

\* render_stock_table(): the submitted restock form
RestockForm(id, quantity) ==
    /\ op = "initialize_database"
    /\ nops < MaxFormOps
    /\ Done("restock_form", <<id, quantity>>, restock_product(db, id, quantity))
    /\ nops' = nops + 1
    /\ UNCHANGED <<now, tz, cl, ledger, seedRuns>>

\* render_stock_table(): the submitted new-product form
AddProductForm(p) ==
    /\ op = "initialize_database"
    /\ nops < MaxFormOps
    /\ p.price > p.cost
    /\ Done("add_product_form", <<p>>,
            add_product(db, now, p.name, p.category, p.price, p.cost, p.stock))
    /\ nops' = nops + 1
    /\ UNCHANGED <<now, tz, cl, ledger, seedRuns>>

\* render_stock_table(): the confirmed delete button
DeleteForm(id) ==
    /\ op = "initialize_database"
    /\ Done("delete_form", <<id>>, delete_product(db, id))
    /\ UNCHANGED <<now, tz, nops, cl, ledger, seedRuns>>

AppNext ==
    \/ \E seed \in FormSeeds : Main(seed)
    \/ \E id \in FirstListed(DOMAIN db.products, 2), q \in FormSaleQuantities :
          SidebarSale(id, q)
    \/ \E id \in FirstListed(DOMAIN db.products, 2), q \in FormRestockQuantities :
          RestockForm(id, q)
    \/ \E p \in ProductInputs : AddProductForm(p)
    \/ \E id \in FirstListed(DOMAIN db.products, 1) : DeleteForm(id)

AppSpec == Init /\ [][AppNext]_vars

\* The projections read at several ages of the recorded sales
ReadAges == {0, 3, 10}            \* days after the start at which calls are made
ReadSaleQuantities == {5}
ReadProductIds == {1}             \* the product a panel looks up
ReadWindowDays == {7}             \* get_daily_sales(7), get_transactions(7)

GetSalesPrediction ==
    /\ Done("get_sales_prediction", <<>>, get_sales_prediction(db, now))
    /\ UNCHANGED <<now, tz, nops, cl, ledger, seedRuns>>

GetProducts ==
    /\ Done("get_products", <<>>, get_products(db))
    /\ UNCHANGED <<now, tz, nops, cl, ledger, seedRuns>>

GetProductById(id) ==
    /\ Done("get_product_by_id", <<id>>, get_product_by_id(db, id))
    /\ UNCHANGED <<now, tz, nops, cl, ledger, seedRuns>>

GetCategories ==
    /\ Done("get_categories", <<>>, get_categories(db))
    /\ UNCHANGED <<now, tz, nops, cl, ledger, seedRuns>>

GetDailySales(days) ==
    /\ Done("get_daily_sales", <<days>>, get_daily_sales(db, now, days))
    /\ UNCHANGED <<now, tz, nops, cl, ledger, seedRuns>>

GetTodaySummary ==
    /\ Done("get_today_summary", <<>>, get_today_summary(db, now))
    /\ UNCHANGED <<now, tz, nops, cl, ledger, seedRuns>>

IsDatabaseEmpty ==
    /\ Done("is_database_empty", <<>>, is_database_empty(db))
    /\ UNCHANGED <<now, tz, nops, cl, ledger, seedRuns>>

\* Days pass between two calls
Later ==
    /\ \E age \in ReadAges :
          /\ now < StartNow + age * MinutesPerDay
          /\ now' = StartNow + age * MinutesPerDay
    /\ UNCHANGED <<db, tz, op, args, ret, raised, nops, cl, ledger, seedRuns>>

ReadNext ==
    \/ CreateTables
    \/ \E p \in ProductInputs : AddProduct(p)
    \/ \E id \in ProductIds, q \in ReadSaleQuantities : UpdateStock(id, q)
    \/ \E id \in ProductIds, x \in TransactionInputs : AddTransaction(id, x)
    \/ GetSalesPrediction
    \/ GetProducts
    \/ \E id \in ReadProductIds : GetProductById(id)
    \/ GetCategories
    \/ \E days \in ReadWindowDays : GetTransactions(days)
    \/ \E days \in ReadWindowDays : GetDailySales(days)
    \/ GetTodaySummary
    \/ IsDatabaseEmpty
    \/ Later

ReadSpec == Init /\ [][ReadNext]_vars

\* The runs of the dashboard that seed the store, over more outcomes of the random
\* choices: the sources of Seeds (the source 0 draws the least value each time)
\* and the source that draws the greatest value each time; between two seedings
\* the operator deletes the catalogue product by product.
SeedOutcomes == Seeds \cup {1000 + 779}

SeedNext ==
    \/ \E seed \in SeedOutcomes : Main(seed)
    \/ \E id \in FirstListed(DOMAIN db.products, 1) : DeleteForm(id)
    \/ Tick

SeedSpec == Init /\ [][SeedNext]_vars

\* The dashboard started at other hours and in other time zones: 08:30 and
\* 20:00 local time, in UTC-5, UTC, UTC+7 and UTC+9.  CURRENT_TIMESTAMP and
\* DATE('now') read the UTC clock, datetime.now() the local one.
ClockStarts == {StartNow - 90, StartNow + 600}
ClockOffsets == {-300, 0, 420, 540}

ClockInit ==
    /\ db = EmptyDb
    /\ now \in ClockStarts
    /\ tz \in ClockOffsets
    /\ op = "start"
    /\ args = <<>>
    /\ ret = TRUE
    /\ raised = FALSE
    /\ nops = 0
    /\ cl = NoClients
    /\ ledger = EmptyMap
    /\ seedRuns = 0

ClockNext ==
    \/ \E seed \in SeedOutcomes : Main(seed)
    \/ \E id \in FirstListed(DOMAIN db.products, 1), q \in FormSaleQuantities :
          SidebarSale(id, q)
    \/ GetTodaySummary
    \/ Tick

ClockSpec == ClockInit /\ [][ClockNext]_vars

-----------------------------------------------------------------------------
(* Calls of several sessions interleaved statement by statement.  Each call
   opens its own connection (get_connection); k = [tx, work] is the
   connection's state: whether it is inside a transaction and, if so, the
   content it will commit.  The sqlite3 module opens a transaction implicitly
   before an UPDATE or DELETE and not before a SELECT. *)

MaxCalls == 3        \* calls started per behaviour

Clients == {1, 2}
StmtFunctions == {"update_stock", "restock_product", "delete_product"}
StmtQuantities == {1, 2}

NoTransaction == [tx |-> FALSE, work |-> EmptyDb]

\* What a statement run on the connection reads
View(d, k) == IF k.tx THEN k.work ELSE d

\* cursor.execute of an UPDATE or DELETE that turns the content into `content`,
\* on a connection opened by sqlite3.connect with the default isolation level
\* executing in autocommit mode: every statement is committed at once
dml_autocommit(d, k, content) ==
    [db |-> content, k |-> NoTransaction]

dml(d, k, content) ==
    [db |-> d, k |-> [tx |-> TRUE, work |-> content]]

\* conn.commit()
commit(d, k) == IF k.tx THEN k.work ELSE d

\* UPDATE products SET stock = ? WHERE id = ?
set_stock(d, product_id, new_stock) ==
    IF product_id \in DOMAIN d.products
    THEN [d EXCEPT !.products[product_id].stock = new_stock]
    ELSE d

Idle ==
    [pc |-> "idle", fn |-> "", id |-> 0, q |-> 0, cur |-> 0, k |-> NoTransaction]

StartStore ==
    LET d0 == create_tables(EmptyDb).db
        d1 == add_product(d0, StartNow, "Pen", "Office", 10, 6, 5).db
        d2 == add_product(d1, StartNow, "Ink", "Office", 40, 25, 3).db
        d3 == add_transaction(d2, StartNow, 1, 1, 10, 4).db
    IN add_transaction(d3, StartNow, 2, 2, 80, 30).db

StmtInit ==
    /\ tz = 0
    /\ now = StartNow
    /\ db = StartStore
    /\ op = "start"
    /\ args = <<>>
    /\ ret = TRUE
    /\ raised = FALSE
    /\ nops = 0
    /\ cl = [c \in Clients |-> Idle]
    /\ ledger = [id \in DOMAIN StartStore.products |-> StartStore.products[id].stock]
    /\ seedRuns = 0

OthersInTransaction(c) == \E o \in Clients \ {c} : cl[o].k.tx

\* The call returns r (conn.close(), return) or raises
Return(c, r, exc) ==
    /\ cl' = [cl EXCEPT ![c] = Idle]
    /\ op' = cl[c].fn
    /\ args' = <<cl[c].id, cl[c].q>>
    /\ ret' = r
    /\ raised' = exc

Call(c, fn, id, q) ==
    /\ cl[c].pc = "idle"
    /\ nops < MaxCalls
    /\ nops' = nops + 1
    /\ cl' = [cl EXCEPT ![c] = [Idle EXCEPT !.pc = "select", !.fn = fn,
                                           !.id = id, !.q = q]]
    /\ UNCHANGED <<op, args, ret, raised, db, now, tz, ledger, seedRuns>>

\* update_stock, restock_product: SELECT stock FROM products WHERE id = ?
SelectStock(c) ==
    /\ cl[c].pc = "select"
    /\ cl[c].fn \in {"update_stock", "restock_product"}
    /\ LET got == get_product_by_id(View(db, cl[c].k), cl[c].id).ret IN
       IF got = None THEN Return(c, FALSE, FALSE)
       ELSE IF cl[c].fn = "update_stock" /\ got[1].stock < cl[c].q
            THEN Return(c, FALSE, FALSE)
            ELSE /\ cl' = [cl EXCEPT ![c].cur = got[1].stock,
                                     ![c].pc = "update"]
                 /\ UNCHANGED <<op, args, ret, raised>>
    /\ UNCHANGED <<db, now, tz, nops, ledger, seedRuns>>

\* update_stock, restock_product: UPDATE products SET stock = new_stock
UpdateStockRow(c) ==
    /\ cl[c].pc = "update"
    /\ ~OthersInTransaction(c)
    /\ LET new_stock == IF cl[c].fn = "update_stock"
                        THEN cl[c].cur - cl[c].q
                        ELSE cl[c].cur + cl[c].q
           r == dml(db, cl[c].k,
                    set_stock(View(db, cl[c].k), cl[c].id, new_stock))
       IN /\ db' = r.db
          /\ cl' = [cl EXCEPT ![c].k = r.k, ![c].pc = "commit"]
    /\ UNCHANGED <<op, args, ret, raised, now, tz, nops, ledger, seedRuns>>

\* delete_product: SELECT id FROM products WHERE id = ?
SelectId(c) ==
    /\ cl[c].pc = "select"
    /\ cl[c].fn = "delete_product"
    /\ IF get_product_by_id(View(db, cl[c].k), cl[c].id).ret = None
       THEN Return(c, FALSE, FALSE)
       ELSE /\ cl' = [cl EXCEPT ![c].pc = "delete_transactions"]
            /\ UNCHANGED <<op, args, ret, raised>>
    /\ UNCHANGED <<db, now, tz, nops, ledger, seedRuns>>

\* delete_product: DELETE FROM transactions WHERE product_id = ?
DeleteTransactionRows(c) ==
    /\ cl[c].pc = "delete_transactions"
    /\ ~OthersInTransaction(c)
    /\ LET v == View(db, cl[c].k)
           r == dml(db, cl[c].k,
                    [v EXCEPT !.transactions =
                                  delete_transactions_of(@, cl[c].id)])
       IN /\ db' = r.db
          /\ cl' = [cl EXCEPT ![c].k = r.k, ![c].pc = "delete_product"]
    /\ UNCHANGED <<op, args, ret, raised, now, tz, nops, ledger, seedRuns>>

\* delete_product: DELETE FROM products WHERE id = ?
DeleteProductRow(c) ==
    /\ cl[c].pc = "delete_product"
    /\ ~OthersInTransaction(c)
    /\ LET v == View(db, cl[c].k)
           r == dml(db, cl[c].k,
                    [v EXCEPT !.products = Restrict(@, DOMAIN @ \ {cl[c].id})])
       IN /\ db' = r.db
          /\ cl' = [cl EXCEPT ![c].k = r.k, ![c].pc = "commit"]
    /\ UNCHANGED <<op, args, ret, raised, now, tz, nops, ledger, seedRuns>>

\* conn.commit(); conn.close(); return True
Commit(c) ==
    /\ cl[c].pc = "commit"
    /\ db' = commit(db, cl[c].k)
    /\ Return(c, TRUE, FALSE)
    /\ ledger' = IF cl[c].id \notin DOMAIN ledger THEN ledger
                 ELSE IF cl[c].fn = "update_stock"
                      THEN [ledger EXCEPT ![cl[c].id] = @ - cl[c].q]
                 ELSE IF cl[c].fn = "restock_product"
                      THEN [ledger EXCEPT ![cl[c].id] = @ + cl[c].q]
                 ELSE ledger
    /\ UNCHANGED <<now, tz, nops, seedRuns>>

\* The call is cut short: the process is killed, or a statement raises (an
\* UPDATE or DELETE that finds the file locked by another connection's
\* transaction until the busy timeout raises sqlite3.OperationalError).  The
\* connection is dropped and what it had not committed is rolled back
Crash(c) ==
    /\ cl[c].pc # "idle"
    /\ Return(c, FALSE, TRUE)
    /\ UNCHANGED <<db, now, tz, nops, ledger, seedRuns>>

StmtNext ==
    \/ \E c \in Clients, fn \in StmtFunctions, id \in ProductIds,
          q \in StmtQuantities : Call(c, fn, id, q)
    \/ \E c \in Clients : SelectStock(c)
    \/ \E c \in Clients : UpdateStockRow(c)
    \/ \E c \in Clients : SelectId(c)
    \/ \E c \in Clients : DeleteTransactionRows(c)
    \/ \E c \in Clients : DeleteProductRow(c)
    \/ \E c \in Clients : Commit(c)
    \/ \E c \in Clients : Crash(c)

StmtSpec == StmtInit /\ [][StmtNext]_vars

-----------------------------------------------------------------------------
(* The calls of two dashboard sessions interleaved function by function, with
   the connections they hold.  A statement and the commit that follows it are
   one step; cl[c].open counts the connections the session has got from
   get_connection() and not closed.  ledger[id] is the stock the product
   started with plus what was restocked since. *)

MaxFlows == 3        \* flows started per behaviour

FlowFunctions == {"sale_form", "update_stock", "restock_product", "update_product"}
FlowProductIds == {1, 3}
FlowQuantities == {2, 3}
FlowPatch == <<None, None, Some(12), None, None>>

FlowIdle ==
    [pc |-> "idle", fn |-> "", id |-> 0, q |-> 0, cur |-> None, open |-> 0]

FlowInit ==
    /\ tz = 0
    /\ now = StartNow
    /\ db \in {EmptyDb, StartStore}
    /\ op = "start"
    /\ args = <<>>
    /\ ret = TRUE
    /\ raised = FALSE
    /\ nops = 0
    /\ cl = [c \in Clients |-> FlowIdle]
    /\ ledger = [id \in DOMAIN StartStore.products |->
                    StartStore.products[id].stock
                       + SumQuantity(StartStore,
                            {i \in DOMAIN StartStore.transactions :
                                StartStore.transactions[i].product_id = id})]
    /\ seedRuns = 0

\* The function returns r or raises, with `open` connections left open
FlowReturn(c, r, exc, open) ==
    /\ cl' = [cl EXCEPT ![c] = [FlowIdle EXCEPT !.open = open]]
    /\ op' = cl[c].fn
    /\ args' = <<cl[c].id, cl[c].q>>
    /\ ret' = r
    /\ raised' = exc

\* The operator submits the sale form (which lists the products in stock), or a
\* session calls one of the functions
StartFlow(c, fn, id, q) ==
    /\ cl[c].pc = "idle"
    /\ nops < MaxFlows
    /\ fn = "sale_form" =>
          /\ id \in DOMAIN db.products
          /\ q <= db.products[id].stock
    /\ nops' = nops + 1
    /\ cl' = [cl EXCEPT ![c] =
                 [FlowIdle EXCEPT !.pc = CASE fn = "sale_form" -> "reread"
                                          [] fn = "update_product" -> "read"
                                          [] OTHER -> "select",
                                  !.fn = fn, !.id = id, !.q = q,
                                  !.open = cl[c].open]]
    /\ UNCHANGED <<op, args, ret, raised, db, now, tz, ledger, seedRuns>>

\* render_sidebar: current_product = db.get_product_by_id(...); the stock comparison
Reread(c) ==
    /\ cl[c].pc = "reread"
    /\ LET got == get_product_by_id(db, cl[c].id) IN
       IF got.raised THEN FlowReturn(c, FALSE, TRUE, cl[c].open + 1)
       ELSE IF got.ret = None THEN FlowReturn(c, FALSE, TRUE, cl[c].open)
       ELSE IF got.ret[1].stock < cl[c].q
            THEN FlowReturn(c, FALSE, FALSE, cl[c].open)
            ELSE /\ cl' = [cl EXCEPT ![c].cur = got.ret, ![c].pc = "add"]
                 /\ UNCHANGED <<op, args, ret, raised>>
    /\ UNCHANGED <<db, now, tz, nops, ledger, seedRuns>>

\* render_sidebar: db.add_transaction(id, quantity, final_total, final_profit)
AddTransactionRow(c) ==
    /\ cl[c].pc = "add"
    /\ LET current_product == cl[c].cur[1]
           r == add_transaction(db, now, cl[c].id, cl[c].q,
                                current_product.price * cl[c].q,
                                (current_product.price - current_product.cost)
                                    * cl[c].q)
       IN /\ db' = r.db
          /\ cl' = [cl EXCEPT ![c].pc = "select"]
    /\ UNCHANGED <<op, args, ret, raised, now, tz, nops, ledger, seedRuns>>

\* update_stock, restock_product: conn = get_connection(); SELECT stock; the
\* two early returns close the connection, a raising SELECT does not
FlowSelectStock(c) ==
    /\ cl[c].pc = "select"
    /\ LET got == get_product_by_id(db, cl[c].id) IN
       IF got.raised THEN FlowReturn(c, FALSE, TRUE, cl[c].open + 1)
       ELSE IF got.ret = None THEN FlowReturn(c, FALSE, FALSE, cl[c].open)
       ELSE IF cl[c].fn # "restock_product" /\ got.ret[1].stock < cl[c].q
            THEN FlowReturn(c, FALSE, FALSE, cl[c].open)
            ELSE /\ cl' = [cl EXCEPT ![c].cur = got.ret, ![c].pc = "update",
                                     ![c].open = @ + 1]
                 /\ UNCHANGED <<op, args, ret, raised>>
    /\ UNCHANGED <<db, now, tz, nops, ledger, seedRuns>>

\* update_stock, restock_product: UPDATE; conn.commit(); conn.close()
FlowUpdateStockRow(c) ==
    /\ cl[c].pc = "update"
    /\ LET new_stock == IF cl[c].fn = "restock_product"
                        THEN cl[c].cur[1].stock + cl[c].q
                        ELSE cl[c].cur[1].stock - cl[c].q
       IN db' = set_stock(db, cl[c].id, new_stock)
    /\ FlowReturn(c, TRUE, FALSE, cl[c].open - 1)
    /\ ledger' = IF cl[c].fn = "restock_product" /\ cl[c].id \in DOMAIN ledger
                 THEN [ledger EXCEPT ![cl[c].id] = @ + cl[c].q]
                 ELSE ledger
    /\ UNCHANGED <<now, tz, nops, seedRuns>>

\* update_product: conn = get_connection(); product = get_product_by_id(...),
\* which uses a connection of its own; "if not product: conn.close()"
ReadProduct(c) ==
    /\ cl[c].pc = "read"
    /\ LET got == get_product_by_id(db, cl[c].id) IN
       IF got.raised THEN FlowReturn(c, FALSE, TRUE, cl[c].open + 2)
       ELSE IF got.ret = None THEN FlowReturn(c, FALSE, FALSE, cl[c].open)
       ELSE /\ cl' = [cl EXCEPT ![c].cur = got.ret, ![c].pc = "write",
                                ![c].open = @ + 1]
            /\ UNCHANGED <<op, args, ret, raised>>
    /\ UNCHANGED <<db, now, tz, nops, ledger, seedRuns>>

\* update_product: UPDATE products SET name, category, price, cost, stock;
\* conn.commit(); conn.close()
WriteProduct(c) ==
    /\ cl[c].pc = "write"
    /\ LET product == cl[c].cur[1]
           row == [product EXCEPT !.name = OrElse(FlowPatch[1], @),
                                  !.category = OrElse(FlowPatch[2], @),
                                  !.price = OrElse(FlowPatch[3], @),
                                  !.cost = OrElse(FlowPatch[4], @),
                                  !.stock = OrElse(FlowPatch[5], @)]
       IN db' = IF cl[c].id \in DOMAIN db.products
                THEN [db EXCEPT !.products[cl[c].id] = row]
                ELSE db
    /\ FlowReturn(c, TRUE, FALSE, cl[c].open - 1)
    /\ UNCHANGED <<now, tz, nops, ledger, seedRuns>>

\* The garbage collector finalises the connections a raising call left behind
Collect(c) ==
    /\ cl[c].pc = "idle"
    /\ cl[c].open > 0
    /\ cl' = [cl EXCEPT ![c].open = 0]
    /\ UNCHANGED <<op, args, ret, raised, db, now, tz, nops, ledger, seedRuns>>

FlowNext ==
    \/ \E c \in Clients, fn \in FlowFunctions, id \in FlowProductIds,
          q \in FlowQuantities : StartFlow(c, fn, id, q)
    \/ \E c \in Clients : Reread(c)
    \/ \E c \in Clients : AddTransactionRow(c)
    \/ \E c \in Clients : FlowSelectStock(c)
    \/ \E c \in Clients : FlowUpdateStockRow(c)
    \/ \E c \in Clients : ReadProduct(c)
    \/ \E c \in Clients : WriteProduct(c)
    \/ \E c \in Clients : Collect(c)

FlowSpec == FlowInit /\ [][FlowNext]_vars

\* The sessions that only submit the sale form
SaleNext ==
    \/ \E c \in Clients, id \in FlowProductIds, q \in FlowQuantities :
          StartFlow(c, "sale_form", id, q)
    \/ \E c \in Clients : Reread(c)
    \/ \E c \in Clients : AddTransactionRow(c)
    \/ \E c \in Clients : FlowSelectStock(c)
    \/ \E c \in Clients : FlowUpdateStockRow(c)

SaleSpec == FlowInit /\ [][SaleNext]_vars

-----------------------------------------------------------------------------
(* Properties of the calls made one at a time *)

\* The step is a mutating call of the function `name`
Called(name) == nops' = nops + 1 /\ op' = name

Stock(d, id) == d.products[id].stock

RowsOf(d, id) == {i \in DOMAIN d.transactions : d.transactions[i].product_id = id}

\* The rows get_transactions(days) returns, as a set
Listed(d, t, days) == Range(get_transactions(d, t, days).ret)

\* C1: no call leaves a product with negative stock (add_product, restock_product
\* and update_product being given no negative value), and update_stock rejects,
\* changing nothing, a quantity larger than the stock.
C1_StockNeverNegative ==
    [][ /\ \A id \in DOMAIN db'.products : Stock(db', id) >= 0
        /\ \A id \in DOMAIN db.products :
              (Called("update_stock") /\ args'[1] = id
                    /\ args'[2] > Stock(db, id))
                 => (ret' = FALSE /\ db' = db) ]_vars

C1_RejectedSale ==
    /\ op = "update_stock"
    /\ args[1] \in DOMAIN db.products
    /\ args[2] > Stock(db, args[1])
    /\ ret = FALSE

\* C2: update_stock(id, q) on an existing product with stock s returns True and
\* leaves exactly s - q when q <= s, and returns False and changes nothing when
\* q > s; from s = 5 a sale of 5 leaves 0, and at s = 0 a sale of 1 fails.
C2_SaleExact ==
    [][ \A id \in DOMAIN db.products :
          (Called("update_stock") /\ args'[1] = id) =>
             LET s == Stock(db, id)
                 q == args'[2]
             IN /\ q <= s => /\ ret' = TRUE
                             /\ db' = [db EXCEPT !.products[id].stock = s - q]
                /\ q > s => (ret' = FALSE /\ db' = db)
                /\ (s = 5 /\ q = 5) => (ret' = TRUE /\ Stock(db', id) = 0)
                /\ (s = 0 /\ q = 1) => (ret' = FALSE /\ Stock(db', id) = 0)
      ]_vars

C2_SoldOutThenRefused ==
    /\ op = "update_stock"
    /\ args = <<1, 1>>
    /\ ret = FALSE
    /\ 1 \in DOMAIN db.products
    /\ db.products[1].name = "Pen"
    /\ Stock(db, 1) = 0

\* C4: a successful delete_product(id) leaves no product id and no transaction
\* row of id, changes no other product or transaction row, and get_transactions
\* returns, for every window, no row of a product that does not exist.
C4_DeleteCascades ==
    [][ /\ (Called("delete_product") /\ ret' = TRUE) =>
              LET id == args'[1] IN
              /\ id \in DOMAIN db.products
              /\ DOMAIN db'.products = DOMAIN db.products \ {id}
              /\ \A j \in DOMAIN db'.products : db'.products[j] = db.products[j]
              /\ RowsOf(db', id) = {}
              /\ DOMAIN db'.transactions = DOMAIN db.transactions \ RowsOf(db, id)
              /\ \A i \in DOMAIN db'.transactions :
                    db'.transactions[i] = db.transactions[i]
        /\ \A days \in WindowDays : \A r \in Listed(db', now', days) :
              r.product_id \in DOMAIN db'.products ]_vars

C4_DeletedWithRows ==
    /\ op = "delete_product"
    /\ ret = TRUE
    /\ args[1] = 1
    /\ db.seq_transactions > 0
    /\ db.transactions = EmptyMap

\* C5: every transaction row names, as product_id, a product that exists.
C5_NoOrphanRows ==
    \A i \in DOMAIN db.transactions :
        db.transactions[i].product_id \in DOMAIN db.products

\* C7: the total_price and profit of a stored transaction are changed by no call,
\* and get_transactions reports exactly the stored total_price and profit.
C7_SnapshotsKept ==
    [][ /\ \A i \in DOMAIN db.transactions \cap DOMAIN db'.transactions :
              /\ db'.transactions[i].total_price = db.transactions[i].total_price
              /\ db'.transactions[i].profit = db.transactions[i].profit
        /\ \A days \in WindowDays : \A r \in Listed(db', now', days) :
              /\ r.id \in DOMAIN db'.transactions
              /\ r.total_price = db'.transactions[r.id].total_price
              /\ r.profit = db'.transactions[r.id].profit ]_vars

C7_RepricedAfterSale ==
    /\ op = "update_product"
    /\ ret = TRUE
    /\ args[2][3] # None
    /\ \E r \in Listed(db, now, 7) :
          /\ r.product_id = args[1]
          /\ r.total_price = 1000
          /\ r.profit = 200

\* C8: every step leaves each transaction row present and unchanged, unless the
\* step is a successful delete_product of the row's own product.
C8_RowsOnlyLeaveWithTheirProduct ==
    [][ \A i \in DOMAIN db.transactions :
          \/ /\ i \in DOMAIN db'.transactions
             /\ db'.transactions[i] = db.transactions[i]
          \/ /\ Called("delete_product")
             /\ ret' = TRUE
             /\ args'[1] = db.transactions[i].product_id ]_vars

C8_RowSurvivesRestock ==
    /\ op = "restock_product"
    /\ ret = TRUE
    /\ RowsOf(db, args[1]) # {}

\* C10: create_tables on a store that has its tables raises nothing and changes
\* nothing, and calling it twice leaves what calling it once leaves.
C10_CreateTablesIdempotent ==
    [][ /\ op' = "create_tables" =>
              /\ ~raised'
              /\ HasTables(db')
              /\ db'.products = db.products
              /\ db'.transactions = db.transactions
              /\ db'.seq_products = db.seq_products
              /\ db'.seq_transactions = db.seq_transactions
        /\ HasTables(db) => create_tables(db).db = db
        /\ create_tables(create_tables(db).db).db = create_tables(db).db ]_vars

C10_CalledOnFilledStore ==
    /\ op = "create_tables"
    /\ DOMAIN db.products # {}
    /\ DOMAIN db.transactions # {}

\* C11: restock_product(id, q) with q >= 0 on an existing product with stock s
\* returns True and leaves exactly s + q, whatever s + q is, changing nothing
\* else; on an absent product, and only then, it returns False and changes nothing.
C11_RestockExact ==
    [][ (Called("restock_product") /\ ~raised' /\ args'[2] >= 0) =>
          LET id == args'[1]
              q == args'[2]
          IN /\ ret' = (id \in DOMAIN db.products)
             /\ id \in DOMAIN db.products =>
                   db' = [db EXCEPT !.products[id].stock = Stock(db, id) + q]
             /\ id \notin DOMAIN db.products => db' = db ]_vars

C11_RestockedTwice ==
    /\ op = "restock_product"
    /\ ret = TRUE
    /\ args[2] = 2
    /\ db.products[args[1]].name = "Pen"
    /\ Stock(db, args[1]) = 9

\* The value update_product leaves in a field: the supplied one, else the old one
Patched(opt, old) == IF Len(opt) = 0 THEN old ELSE opt[1]

\* C12: update_product on an existing id returns True and overwrites exactly the
\* supplied fields, a supplied 0 or empty string included, keeping the other
\* fields, id and created_at, every other product and every transaction; on an
\* absent id it returns False and changes nothing.
C12_PatchSemantics ==
    [][ (Called("update_product") /\ ~raised') =>
          LET id == args'[1]
              patch == args'[2]
          IN /\ ret' = (id \in DOMAIN db.products)
             /\ id \notin DOMAIN db.products => db' = db
             /\ id \in DOMAIN db.products =>
                   LET old == db.products[id]
                       new == db'.products[id]
                   IN /\ new.name = Patched(patch[1], old.name)
                      /\ new.category = Patched(patch[2], old.category)
                      /\ new.price = Patched(patch[3], old.price)
                      /\ new.cost = Patched(patch[4], old.cost)
                      /\ new.stock = Patched(patch[5], old.stock)
                      /\ new.id = old.id
                      /\ new.created_at = old.created_at
                      /\ db' = [db EXCEPT !.products[id] = new] ]_vars

C12_EmptyNameSupplied ==
    /\ op = "update_product"
    /\ ret = TRUE
    /\ args[2][1] = Some("")
    /\ db.products[args[1]].name = ""
    /\ db.products[args[1]].category = "School"
    /\ db.products[args[1]].price = 10

\* C13: update_stock never returns, for a product that exists with too little
\* stock, the value it returns for a product id that does not exist.
C13_FailuresDistinguishable ==
    \A absent \in ProductIds \ DOMAIN db.products :
    \A short \in DOMAIN db.products :
    \A q \in SaleQuantities :
        (HasTables(db) /\ Stock(db, short) < q) =>
            update_stock(db, absent, q).ret # update_stock(db, short, q).ret

\* C14: update_stock and restock_product given a negative quantity, and
\* add_transaction given a quantity that is not positive, report failure and
\* leave every product and every transaction as it was.
C14_InvalidValuesRejected ==
    [][ /\ ((Called("update_stock") \/ Called("restock_product"))
                /\ args'[2] < 0) => (ret' = FALSE /\ db' = db)
        /\ (Called("add_transaction") /\ args'[2][1] <= 0) => db' = db ]_vars

-----------------------------------------------------------------------------
(* Properties of the dashboard's runs *)

\* C9 as stated: initialize_database returns True at most once, whatever the
\* operator does between two runs.
C9_SeedsExactlyOnce == seedRuns <= 1

\* C9 amended: initialize_database returns True exactly when the products table
\* is empty at the call; when it returns False it changes no product and no
\* transaction row; and a call made right after any call returns False and
\* changes nothing.
C9_SeedsWheneverEmpty ==
    [][ op' = "initialize_database" =>
          /\ ~raised'
          /\ ret' = (DOMAIN db.products = {})
          /\ ret' = (seedRuns' = seedRuns + 1)
          /\ ~ret' => /\ db'.products = db.products
                      /\ db'.transactions = db.transactions
          /\ \A seed \in Seeds :
                LET again == initialize_database(db', now', seed) IN
                again.ret = FALSE /\ again.db = db' ]_vars

C9_LaterRunFindsData ==
    /\ op = "initialize_database"
    /\ ret = FALSE
    /\ seedRuns = 1
    /\ nops > 0
    /\ Cardinality(DOMAIN db.products) < Len(products_data)

-----------------------------------------------------------------------------
(* Properties of the seeding *)

\* The step is an initialize_database() that found an empty store and seeded it
Seeded ==
    /\ op' = "initialize_database"
    /\ ret' = TRUE
    /\ DOMAIN db.products = {}
    /\ DOMAIN db.transactions = {}

\* C15: after initialize_database() on an empty store get_products() returns
\* exactly the 10 catalogue products (name, category, price, cost), there are at
\* most 50 transactions, and every transaction is dated within the 8 days
\* (8 * 24 hours) that end at the seeding time.
C15_SeededCatalogue ==
    [][ Seeded =>
          LET listed == get_products(db').ret IN
          /\ Cardinality(DOMAIN listed) = Len(products_data)
          /\ \A k \in 1..Len(products_data) :
                LET id == db.seq_products + k IN
                /\ id \in DOMAIN listed
                /\ <<listed[id].name, listed[id].category, listed[id].price,
                      listed[id].cost>> = SubSeq(products_data[k], 1, 4)
                /\ listed[id].stock <= products_data[k][5]
          /\ Cardinality(DOMAIN db'.transactions) <= 50
          /\ \A i \in DOMAIN db'.transactions :
                LET date == db'.transactions[i].transaction_date IN
                date > now - 8 * MinutesPerDay /\ date <= now ]_vars

C15_SeededAtTheLimit ==
    /\ op = "initialize_database"
    /\ ret = TRUE
    /\ Cardinality(DOMAIN db.products) = 10
    /\ Cardinality(DOMAIN db.transactions) = 50
    /\ \E i \in DOMAIN db.transactions :
          db.transactions[i].transaction_date < now - 7 * MinutesPerDay

\* C16: once generate_dummy_data has completed on an empty store, the store
\* holds exactly 50 transactions.
C16_FiftyTransactions ==
    (op = "initialize_database" /\ ret = TRUE)
        => Cardinality(DOMAIN db.transactions) = 50

\* C17: after the seeding each catalogue product's stock is its catalogue stock
\* less the quantities of its seeded transactions and is not negative, and each
\* seeded quantity is between 1 and 3 and at most the stock that was left when
\* it was generated.
C17_SeededStock ==
    [][ Seeded =>
          \A k \in 1..Len(products_data) :
             LET id == db.seq_products + k
                 rows == RowsOf(db', id)
             IN /\ Stock(db', id) =
                      products_data[k][5] - SumQuantity(db', rows)
                /\ Stock(db', id) >= 0
                /\ \A i \in rows :
                      /\ db'.transactions[i].quantity \in 1..3
                      /\ SumQuantity(db', {j \in rows : j <= i})
                            <= products_data[k][5] ]_vars

C17_SeededUntilSoldOut ==
    /\ op = "initialize_database"
    /\ ret = TRUE
    /\ \E id \in DOMAIN db.products :
          /\ Stock(db, id) = 0
          /\ RowsOf(db, id) # {}

-----------------------------------------------------------------------------
(* Properties of the prediction *)

\* The records get_sales_prediction() returns now, as a set
Predicted == Range(get_sales_prediction(db, now).ret)

\* The rows of product id dated within the 3 days that end now
SoldLast3Days(id) ==
    {i \in RowsOf(db, id) :
        db.transactions[i].transaction_date >= now - 3 * MinutesPerDay}

\* C18: get_sales_prediction() returns exactly one record for each product that
\* exists, and the record of a product with no transaction in the last 3 days
\* has average 0, predicted demand 0 and the status "Aman", whatever its stock.
C18_OneRecordPerProduct ==
    HasTables(db) =>
        /\ Len(get_sales_prediction(db, now).ret) = Cardinality(DOMAIN db.products)
        /\ \A r \in Predicted : r.product_id \in DOMAIN db.products
        /\ \A id \in DOMAIN db.products :
              /\ Cardinality({r \in Predicted : r.product_id = id}) = 1
              /\ SoldLast3Days(id) = {} =>
                    \A r \in Predicted : r.product_id = id =>
                        /\ r.avg_daily_sales[1] = 0
                        /\ r.total_sold_3days = 0
                        /\ r.predicted_demand = 0
                        /\ r.stock_status = "Aman"

C18_OldSalesOnly ==
    /\ op = "get_sales_prediction"
    /\ \E r \in Range(ret), o \in Range(ret) :
          /\ RowsOf(db, r.product_id) # {}
          /\ r.total_sold_3days = 0
          /\ r.stock_status = "Aman"
          /\ r.current_stock > 0
          /\ RowsOf(db, o.product_id) = {}
          /\ o.current_stock = 0
          /\ o.stock_status = "Aman"

\* C19: for every product the record holds, over the product's rows dated
\* within the last 3 days, the sum of the quantities as total_sold_3days and
\* their mean as avg_daily_sales, and predicted_demand is an integer nearest to
\* avg_daily_sales * 1.2 (exact arithmetic: |demand - 1.2 * avg| <= 1/2).
C19_SumMeanAndDemand ==
    \A r \in Predicted :
        LET rows == SoldLast3Days(r.product_id)
            total == SumQuantity(db, rows)
            n == Cardinality(rows)
            avg == r.avg_daily_sales
            twice == 2 * (5 * avg[2] * r.predicted_demand - 6 * avg[1])
        IN /\ r.total_sold_3days = total
           /\ avg[2] > 0
           /\ avg[1] * n = total * avg[2]
           /\ n = 0 => avg[1] = 0
           /\ twice <= 5 * avg[2]
           /\ -twice <= 5 * avg[2]

C19_RoundedUp ==
    /\ op = "get_sales_prediction"
    /\ \E r \in Range(ret) :
          /\ r.total_sold_3days = 3
          /\ r.avg_daily_sales = <<3, 2>>
          /\ r.predicted_demand = 2

-----------------------------------------------------------------------------
(* Properties of the other projections *)

\* The transaction rows dated within the `days` days that end now
Since(days) ==
    {i \in DOMAIN db.transactions :
        db.transactions[i].transaction_date >= now - days * MinutesPerDay}

\* C21: get_daily_sales(w) returns, in ascending order of date, exactly one row
\* for each calendar date on which a transaction dated within the last w days
\* falls, holding the sums of total_price, profit and quantity of those
\* transactions; transactions that are all 10 days old give no row for w = 7.
C21_OneRowPerDate ==
    "transactions" \in db.tables =>
        \A w \in WindowDays :
           LET rows == get_daily_sales(db, now, w).ret
               on(date) == {i \in Since(w) :
                              Day(db.transactions[i].transaction_date) = date}
           IN /\ {rows[k].date : k \in 1..Len(rows)} =
                    {Day(db.transactions[i].transaction_date) : i \in Since(w)}
              /\ \A k, l \in 1..Len(rows) : k < l => rows[k].date < rows[l].date
              /\ \A k \in 1..Len(rows) :
                    /\ on(rows[k].date) # {}
                    /\ rows[k].total_sales = SumTotalPrice(db, on(rows[k].date))
                    /\ rows[k].total_profit = SumProfit(db, on(rows[k].date))
                    /\ rows[k].total_items = SumQuantity(db, on(rows[k].date))
              /\ (w = 7 /\ \A i \in DOMAIN db.transactions :
                              db.transactions[i].transaction_date
                                 <= now - 10 * MinutesPerDay) => rows = <<>>

C21_TenDaysOld ==
    /\ op = "get_daily_sales"
    /\ args = <<7>>
    /\ ret = <<>>
    /\ Cardinality(DOMAIN db.transactions) = 2
    /\ Since(10) = DOMAIN db.transactions

\* The transaction rows whose stored calendar date is the date on the clock
\* the dashboard and the seeding read, datetime.now()
DatedToday(d, t) ==
    {i \in DOMAIN d.transactions : Day(d.transactions[i].transaction_date) = Day(t)}

\* C22: get_today_summary() returns the sums of total_price, profit and quantity
\* over exactly the transactions of the current calendar date: right after the
\* store was seeded these are the seeded rows dated today, a sale just recorded
\* through add_transaction raises the three sums by its own values, and with no
\* transaction at all the three fields are 0.
C22_TodaysRows ==
    [][LET before == get_today_summary(db, now).ret
           after == get_today_summary(db', now').ret
       IN /\ Seeded =>
               /\ after.total_sales = SumTotalPrice(db', DatedToday(db', now'))
               /\ after.total_profit = SumProfit(db', DatedToday(db', now'))
               /\ after.total_items = SumQuantity(db', DatedToday(db', now'))
          /\ (op' = "sale_form" /\ ret' = TRUE) =>
               /\ after.total_items = before.total_items + args'[2]
               /\ after.total_sales =
                     before.total_sales + db.products[args'[1]].price * args'[2]
          /\ ("transactions" \in db'.tables /\ DOMAIN db'.transactions = {}) =>
               after = [total_sales |-> 0, total_profit |-> 0, total_items |-> 0]
      ]_vars

\* C23: get_transactions(w) returns, newest first and each with its product's
\* name, exactly the transactions dated within the w days that end now; the
\* window includes now, so the transaction that add_transaction has just
\* recorded for an existing product is returned for every w >= 0.
C23_WindowIncludesNow ==
    [][\A w \in WindowDays :
          LET rows == get_transactions(db', now', w).ret IN
          HasTables(db') =>
             /\ \A k \in 1..Len(rows) :
                   /\ rows[k].transaction_date >= now' - w * MinutesPerDay
                   /\ rows[k].product_name = db'.products[rows[k].product_id].name
             /\ \A k, l \in 1..Len(rows) :
                   k < l => rows[k].transaction_date >= rows[l].transaction_date
             /\ (Called("add_transaction") /\ ~raised'
                   /\ args'[1] \in DOMAIN db'.products) =>
                   \E k \in 1..Len(rows) : rows[k].id = ret'
      ]_vars

\* C24: add_product returns an id that no product has or ever had: every id in
\* use is at most the sequence value of the products table, the sequence never
\* decreases (not after delete_product either), and the new id is above it; a
\* row keeps its id under every operation.
C24_FreshIds ==
    [][/\ DOMAIN db'.products \subseteq 1..db'.seq_products
       /\ db'.seq_products >= db.seq_products
       /\ \A id \in DOMAIN db'.products : db'.products[id].id = id
       /\ op' # "add_product" => DOMAIN db'.products \subseteq DOMAIN db.products
       /\ (Called("add_product") /\ ~raised') =>
             /\ ret' > db.seq_products
             /\ DOMAIN db'.products = DOMAIN db.products \cup {ret'}
             /\ \A id \in DOMAIN db.products : db'.products[id] = db.products[id]
      ]_vars

\* The second product added after the first was deleted
C24_AddedAfterDelete ==
    /\ op = "add_product"
    /\ ~raised
    /\ ret = 2
    /\ DOMAIN db.products = {2}

\* The functions of database.py that only read
ReadOperations ==
    {"get_products", "get_product_by_id", "get_categories", "get_transactions",
     "get_daily_sales", "get_today_summary", "get_sales_prediction",
     "is_database_empty"}

\* C25: get_products, get_product_by_id, get_categories, get_transactions,
\* get_daily_sales, get_today_summary, get_sales_prediction and
\* is_database_empty leave the store as it was: the tables, the products rows,
\* the transactions rows and the sequences are the same after the call, also
\* when the call raises.
C25_ReadsArePure ==
    [][op' \in ReadOperations => db' = db]_vars

\* A summary was read from a store that holds a product and today's sale
C25_ReadAFilledStore ==
    /\ op = "get_today_summary"
    /\ ~raised
    /\ ret.total_items > 0
    /\ DOMAIN db.products # {}

\* C27: update_product, restock_product, delete_product and update_stock called
\* with the id of no product return False and leave every product row and every
\* transaction row as it was.
C27_NotFoundChangesNothing ==
    [][\A name \in {"update_product", "restock_product", "delete_product",
                    "update_stock"} :
          (Called(name) /\ HasTables(db) /\ args'[1] \notin DOMAIN db.products) =>
             /\ ~raised'
             /\ ret' = FALSE
             /\ db'.products = db.products
             /\ db'.transactions = db.transactions
      ]_vars

\* delete_product was refused for an id that only a transaction row refers to
C27_RefusedWithRowsLeft ==
    /\ op = "delete_product"
    /\ ~raised
    /\ ret = FALSE
    /\ args[1] \notin DOMAIN db.products
    /\ RowsOf(db, args[1]) # {}
    /\ DOMAIN db.products # {}

\* The sum of the column `field` over the rows a projection returned
RECURSIVE Total(_, _)
Total(rows, field) ==
    IF rows = <<>> THEN 0 ELSE Head(rows)[field] + Total(Tail(rows), field)

\* C30: at every instant and for every window w the rows of get_daily_sales(w)
\* add up to what the rows of get_transactions(w) add up to: total_sales to
\* total_price, total_profit to profit, total_items to quantity.
C30_AggregatesAgree ==
    HasTables(db) =>
        \A w \in WindowDays :
           LET daily == get_daily_sales(db, now, w).ret
               listing == get_transactions(db, now, w).ret
           IN /\ Total(daily, "total_sales") = Total(listing, "total_price")
              /\ Total(daily, "total_profit") = Total(listing, "profit")
              /\ Total(daily, "total_items") = Total(listing, "quantity")

-----------------------------------------------------------------------------
(* Properties of the interleaved flows *)

\* C26: a function of the repository closes every connection it opened on every
\* exit path, the not-found return, the insufficient-stock return and a raising
\* statement included: a session that is not inside a call holds no open
\* connection.
C26_ConnectionsReleased ==
    \A c \in Clients : cl[c].pc = "idle" => cl[c].open = 0

\* C28: the sale flow of the sidebar records a transaction row only when the
\* stock is decremented for it: whenever no flow is under way, the stock of each
\* product plus the quantities of its transaction rows equals the stock it
\* started with plus what was restocked, also when two sale flows interleave.
C28_RowsMatchDecrements ==
    (\A c \in Clients : cl[c].pc = "idle") =>
        \A id \in DOMAIN db.products :
           Stock(db, id) + SumQuantity(db, RowsOf(db, id)) = ledger[id]

\* C29: update_product called without a stock argument does not change the
\* product's stock: the step that writes the row leaves the stock that the last
\* committed sale or restock wrote, also when that commit came after
\* update_product had read the row.
C29_StockNotInPatchUntouched ==
    [][\A c \in Clients :
          (cl[c].pc = "write" /\ cl'[c].pc = "idle" /\ FlowPatch[5] = None
              /\ cl[c].id \in DOMAIN db.products) =>
             Stock(db', cl[c].id) = Stock(db, cl[c].id)
      ]_vars

-----------------------------------------------------------------------------
(* Properties of the interleaved calls *)

Quiet == \A c \in Clients : cl[c].pc = "idle"

\* C3: when update_stock and restock_product calls on a product interleave, no
\* update is lost: once every call has returned, the stock of each product is
\* its initial stock plus the restocks that returned True minus the sales that
\* returned True.
C3_NoLostUpdate ==
    Quiet => \A id \in DOMAIN db.products \cap DOMAIN ledger :
                 Stock(db, id) = ledger[id]

\* C6: in the committed store the transaction rows of a product are deleted
\* only together with the product and the product only together with its
\* rows, wherever a delete_product call is cut short.
C6_DeleteAllOrNothing ==
    [][ \A id \in DOMAIN db.products :
          /\ (RowsOf(db, id) # {} /\ RowsOf(db', id) = {})
                => id \notin DOMAIN db'.products
          /\ id \notin DOMAIN db'.products => RowsOf(db', id) = {} ]_vars

C6_BetweenTheTwoDeletes ==
    \E c \in Clients :
        /\ cl[c].pc = "delete_product"
        /\ cl[c].k.tx
        /\ RowsOf(cl[c].k.work, cl[c].id) = {}
        /\ cl[c].id \in DOMAIN db.products
        /\ RowsOf(db, cl[c].id) # {}

====
